---- MODULE Spec2Model ----
(***************************************************************************)
(* Hierarchical lock manager over a static M-ary tree (tree-of-space).     *)
(*                                                                         *)
(* The module models                                                       *)
(*   - the tree built by buildTree from a branching factor and N labels,   *)
(*   - the counter-based manager (ancestorLocked / descendantLocked),      *)
(*     sequential form, as pure operators over a lock-state record,        *)
(*   - the brute-force manager (tree walks, no counters), run on the same  *)
(*     queries,                                                            *)
(*   - the std::mutex / spinlock managers, one shared-memory access per    *)
(*     step, run by concurrent threads (specification SpecMutex; with      *)
(*     thread fairness, FairSpecMutex),                                    *)
(*   - queries naming a label that is not in the index (SpecLabel) and     *)
(*     construction from an unchecked branching factor (SpecInput),        *)
(*   - the loop of processQueries with its output log (SpecQueries),       *)
(*   - lockNode of the lock-free manager, one atomic access per step       *)
(*     (SpecLockFree).                                                     *)
(*                                                                         *)
(* Nodes are the indices 0..N-1 of the label list (0 is the root); a label *)
(* is identified with the index of its node.  User ids are integers; 0 is  *)
(* also the value userID holds on an unlocked node.                        *)
(***************************************************************************)
EXTENDS Integers, Sequences, FiniteSets, TLC

\* ------------------------------------------------------------------ bounds
MaxNodes == 5
MaxBranch == 2
MaxUser == 2
\* Concurrent specification: number of threads, tree size and user ids.
NumThreads == 2
MaxNodesC == 4
MaxBranchC == 2
MaxUserC == 1
\* Number of queries handed to processQueries in one run.
MaxQueries == 2

Users == 0..MaxUser
UsersC == 0..MaxUserC
Threads == 1..NumThreads

VARIABLES
    branchingFactor,    \* the numChildren read from the input
    labelToNode,    \* label -> node index; -1 stands for a null node pointer
    parentID,       \* node -> parent index, -1 for the root
    childrenIDs,    \* node -> sequence of child indices, in input order
    isLocked,       \* node -> BOOLEAN
    userID,         \* node -> user id of the holder, 0 when unlocked
    ancestorLocked,     \* node -> counter
    descendantLocked,   \* node -> counter
    bIsLocked,      \* brute-force manager: node -> BOOLEAN
    bUserID,        \* brute-force manager: node -> user id
    last,           \* the last completed call: arguments, results, state before it
    rtValid,        \* the call before last was a successful lockNode(last.node, last.id)
    rtPre,          \* ... and this was the lock state before that lockNode
    queries,        \* the queries processQueries has gone through, in order
    outputLog,      \* the outputLog of the manager: one string per query
    staleCheck,     \* lock-free manager: some precondition load was made while
                    \* another call was between its first load and its last update
    variant,        \* concurrent manager in use: "mutex" (std::mutex) or "spin" (CustomSpinLock)
    lock_flag,      \* the global boundary: 0 = free, 1 = held
    th,             \* thread -> its position in the current call and its locals
    lin,            \* lock state after the calls so far, run one at a time in
                    \* the order in which they took the boundary
    linRet          \* thread -> result of its current call in that sequential run

treeVars == <<branchingFactor, labelToNode, parentID, childrenIDs>>
lockVars == <<isLocked, userID, ancestorLocked, descendantLocked>>
bruteVars == <<bIsLocked, bUserID>>
histVars == <<last, rtValid, rtPre, queries, outputLog, staleCheck>>
thrVars == <<variant, lock_flag, th, lin, linRet>>
vars == <<treeVars, lockVars, bruteVars, histVars, thrVars>>

Nodes == DOMAIN parentID

\* The labels a query can name and find.
KnownLabels == {l \in DOMAIN labelToNode : labelToNode[l] # -1}

Min(a, b) == IF a < b THEN a ELSE b

\* ------------------------------------------------------------ tree store

\* The BFS loop of buildTree: q is the queue of node indices, startIndex the
\* next label to attach.
\* par, kids and labelToID are the three outputs filled as the loop goes; the
\* label of node i is the i-th label of the input.
RECURSIVE buildLoop(_, _, _, _, _, _, _)
buildLoop(q, startIndex, par, kids, labelToID, numChildren, numNodes) ==
    IF q = <<>> \/ ~(startIndex < numNodes)
    THEN [parentID |-> par, childrenIDs |-> kids, labelToID |-> labelToID]
    ELSE LET parentIndex == Head(q)
             endIndex == Min(numNodes, startIndex + numChildren)
             added == [k \in 1..(endIndex - startIndex) |-> startIndex + k - 1]
         IN  buildLoop(Tail(q) \o added, endIndex,
                       [i \in DOMAIN par |->
                           IF i >= startIndex /\ i < endIndex THEN parentIndex ELSE par[i]],
                       [kids EXCEPT ![parentIndex] = @ \o added],
                       [l \in DOMAIN labelToID \cup {startIndex + k - 1 :
                                                       k \in 1..(endIndex - startIndex)} |-> l],
                       numChildren, numNodes)

\* buildTree with one child more per node than asked for.
BuildTreeOneChildMore(numChildren, numNodes) ==
    buildLoop(<<0>>, 1, [i \in 0..(numNodes - 1) |-> -1],
              [i \in 0..(numNodes - 1) |-> <<>>], [l \in {0} |-> 0],
              numChildren + 1, numNodes)

buildTree(numChildren, numNodes) ==
    buildLoop(<<0>>, 1, [i \in 0..(numNodes - 1) |-> -1],
              [i \in 0..(numNodes - 1) |-> <<>>], [l \in {0} |-> 0],
              numChildren, numNodes)

\* Strict ancestors and strict descendants, read off the parent pointers.
RECURSIVE Ancestors(_)
Ancestors(n) ==
    IF parentID[n] = -1 THEN {} ELSE {parentID[n]} \cup Ancestors(parentID[n])

Descendants(n) == {d \in Nodes : n \in Ancestors(d)}

\* ------------------------------------------------- counter-based manager

\* The lock state as one value.
State(l, u, a, d) ==
    [isLocked |-> l, userID |-> u, ancestorLocked |-> a, descendantLocked |-> d]

Cur == State(isLocked, userID, ancestorLocked, descendantLocked)

\* updateDescendant: add value to ancestorLocked of every strict descendant,
\* children in order, each child before its own subtree.
RECURSIVE updateDescendant(_, _, _), updateChildren(_, _, _, _)
updateChildren(al, kids, i, value) ==
    IF i > Len(kids) THEN al
    ELSE updateChildren(
            updateDescendant([al EXCEPT ![kids[i]] = @ + value], kids[i], value),
            kids, i + 1, value)

\* A downward walk that adds value to the starting node as well.
UpdateDescendantWithSelf(al, node, value) ==
    updateChildren([al EXCEPT ![node] = @ + value], childrenIDs[node], 1, value)

updateDescendant(al, node, value) == updateChildren(al, childrenIDs[node], 1, value)

\* The upward loop of lockNode / unlockNode: add value to descendantLocked of
\* current and of every node above it.
RECURSIVE updateAncestors(_, _, _)
updateAncestors(dl, current, value) ==
    IF current = -1 THEN dl
    ELSE updateAncestors([dl EXCEPT ![current] = @ + value], parentID[current], value)

\* lockNode with the upward walk left out.
LockNodeNoAncestorWalk(s, n, id) ==
    IF s.isLocked[n] THEN [ret |-> FALSE, st |-> s]
    ELSE IF s.ancestorLocked[n] # 0 \/ s.descendantLocked[n] # 0
    THEN [ret |-> FALSE, st |-> s]
    ELSE [ret |-> TRUE,
          st |-> State([s.isLocked EXCEPT ![n] = TRUE],
                       [s.userID EXCEPT ![n] = id],
                       updateDescendant(s.ancestorLocked, n, 1),
                       s.descendantLocked)]

\* lockNode that tests only the node's own flag and its descendant counter.
LockNodeIgnoresAncestors(s, n, id) ==
    IF s.isLocked[n] THEN [ret |-> FALSE, st |-> s]
    ELSE IF s.descendantLocked[n] # 0
    THEN [ret |-> FALSE, st |-> s]
    ELSE [ret |-> TRUE,
          st |-> State([s.isLocked EXCEPT ![n] = TRUE],
                       [s.userID EXCEPT ![n] = id],
                       updateDescendant(s.ancestorLocked, n, 1),
                       updateAncestors(s.descendantLocked, parentID[n], 1))]

\* lockNode that starts its upward walk before testing the counters.
LockNodeWalksBeforeCheck(s, n, id) ==
    IF s.isLocked[n] THEN [ret |-> FALSE, st |-> s]
    ELSE IF s.ancestorLocked[n] # 0 \/ s.descendantLocked[n] # 0
    THEN [ret |-> FALSE,
          st |-> [s EXCEPT !.descendantLocked =
                              updateAncestors(s.descendantLocked, parentID[n], 1)]]
    ELSE [ret |-> TRUE,
          st |-> State([s.isLocked EXCEPT ![n] = TRUE],
                       [s.userID EXCEPT ![n] = id],
                       updateDescendant(s.ancestorLocked, n, 1),
                       updateAncestors(s.descendantLocked, parentID[n], 1))]

\* lockNode that also refuses when a lock is held below the parent of n, that
\* is on a sibling of n or under one.
LockNodeChecksSiblings(s, n, id) ==
    IF s.isLocked[n] THEN [ret |-> FALSE, st |-> s]
    ELSE IF s.ancestorLocked[n] # 0 \/ s.descendantLocked[n] # 0
    THEN [ret |-> FALSE, st |-> s]
    ELSE IF parentID[n] # -1 /\ s.descendantLocked[parentID[n]] # 0
    THEN [ret |-> FALSE, st |-> s]
    ELSE [ret |-> TRUE,
          st |-> State([s.isLocked EXCEPT ![n] = TRUE],
                       [s.userID EXCEPT ![n] = id],
                       updateDescendant(s.ancestorLocked, n, 1),
                       updateAncestors(s.descendantLocked, parentID[n], 1))]

lockNode(s, n, id) ==
    IF s.isLocked[n] THEN [ret |-> FALSE, st |-> s]
    ELSE IF s.ancestorLocked[n] # 0 \/ s.descendantLocked[n] # 0
    THEN [ret |-> FALSE, st |-> s]
    ELSE [ret |-> TRUE,
          st |-> State([s.isLocked EXCEPT ![n] = TRUE],
                       [s.userID EXCEPT ![n] = id],
                       updateDescendant(s.ancestorLocked, n, 1),
                       updateAncestors(s.descendantLocked, parentID[n], 1))]

\* unlockNode with the downward walk left out.
UnlockNodeNoDescendantWalk(s, n, id) ==
    IF ~s.isLocked[n] THEN [ret |-> FALSE, st |-> s]
    ELSE IF s.isLocked[n] /\ s.userID[n] # id THEN [ret |-> FALSE, st |-> s]
    ELSE [ret |-> TRUE,
          st |-> State([s.isLocked EXCEPT ![n] = FALSE],
                       [s.userID EXCEPT ![n] = 0],
                       s.ancestorLocked,
                       updateAncestors(s.descendantLocked, parentID[n], -1))]

\* unlockNode that decrements the parent only, not the whole ancestor chain.
UnlockNodeParentOnly(s, n, id) ==
    IF ~s.isLocked[n] THEN [ret |-> FALSE, st |-> s]
    ELSE IF s.isLocked[n] /\ s.userID[n] # id THEN [ret |-> FALSE, st |-> s]
    ELSE [ret |-> TRUE,
          st |-> State([s.isLocked EXCEPT ![n] = FALSE],
                       [s.userID EXCEPT ![n] = 0],
                       updateDescendant(s.ancestorLocked, n, -1),
                       IF parentID[n] = -1 THEN s.descendantLocked
                       ELSE [s.descendantLocked EXCEPT ![parentID[n]] = @ - 1])]

\* unlockNode without the owner test.
UnlockNodeAnyOwner(s, n, id) ==
    IF ~s.isLocked[n] THEN [ret |-> FALSE, st |-> s]
    ELSE [ret |-> TRUE,
          st |-> State([s.isLocked EXCEPT ![n] = FALSE],
                       [s.userID EXCEPT ![n] = 0],
                       updateDescendant(s.ancestorLocked, n, -1),
                       updateAncestors(s.descendantLocked, parentID[n], -1))]

\* unlockNode that leaves userID as it was.
UnlockNodeKeepsUser(s, n, id) ==
    IF ~s.isLocked[n] THEN [ret |-> FALSE, st |-> s]
    ELSE IF s.isLocked[n] /\ s.userID[n] # id THEN [ret |-> FALSE, st |-> s]
    ELSE [ret |-> TRUE,
          st |-> State([s.isLocked EXCEPT ![n] = FALSE],
                       s.userID,
                       updateDescendant(s.ancestorLocked, n, -1),
                       updateAncestors(s.descendantLocked, parentID[n], -1))]

\* unlockNode that lets the user id 0 release anybody's lock.
UnlockNodeZeroIsAnyone(s, n, id) ==
    IF ~s.isLocked[n] THEN [ret |-> FALSE, st |-> s]
    ELSE IF s.isLocked[n] /\ s.userID[n] # id /\ id # 0 THEN [ret |-> FALSE, st |-> s]
    ELSE [ret |-> TRUE,
          st |-> State([s.isLocked EXCEPT ![n] = FALSE],
                       [s.userID EXCEPT ![n] = 0],
                       updateDescendant(s.ancestorLocked, n, -1),
                       updateAncestors(s.descendantLocked, parentID[n], -1))]

\* unlockNode with the upward walk left out.
UnlockNodeNoAncestorWalk(s, n, id) ==
    IF ~s.isLocked[n] THEN [ret |-> FALSE, st |-> s]
    ELSE IF s.isLocked[n] /\ s.userID[n] # id THEN [ret |-> FALSE, st |-> s]
    ELSE [ret |-> TRUE,
          st |-> State([s.isLocked EXCEPT ![n] = FALSE],
                       [s.userID EXCEPT ![n] = 0],
                       updateDescendant(s.ancestorLocked, n, -1),
                       s.descendantLocked)]

unlockNode(s, n, id) ==
    IF ~s.isLocked[n] THEN [ret |-> FALSE, st |-> s]
    ELSE IF s.isLocked[n] /\ s.userID[n] # id THEN [ret |-> FALSE, st |-> s]
    ELSE [ret |-> TRUE,
          st |-> State([s.isLocked EXCEPT ![n] = FALSE],
                       [s.userID EXCEPT ![n] = 0],
                       updateDescendant(s.ancestorLocked, n, -1),
                       updateAncestors(s.descendantLocked, parentID[n], -1))]

\* checkDescendantsLocked: [ok, lockedNodes]; the walk stops below an unlocked
\* node whose descendantLocked is 0 and at the first node of another user.
RECURSIVE checkDescendantsLocked(_, _, _, _), checkChildren(_, _, _, _, _)
checkChildren(s, kids, i, id, lockedNodes) ==
    IF i > Len(kids) THEN [ok |-> TRUE, lockedNodes |-> lockedNodes]
    ELSE LET r == checkDescendantsLocked(s, kids[i], id, lockedNodes)
         IN  IF ~r.ok THEN r
             ELSE checkChildren(s, kids, i + 1, id, r.lockedNodes)

\* A traversal that collects locked nodes whoever owns them.
CheckDescendantsLockedAnyOwner(s, node, id, lockedNodes) ==
    LET collected == IF s.isLocked[node] THEN Append(lockedNodes, node)
                     ELSE lockedNodes
    IN  IF s.descendantLocked[node] = 0 /\ ~s.isLocked[node]
        THEN [ok |-> TRUE, lockedNodes |-> collected]
        ELSE checkChildren(s, childrenIDs[node], 1, id, collected)

\* A traversal that also stops at an unlocked node with one locked descendant.
CheckDescendantsLockedPrunesAtOne(s, node, id, lockedNodes) ==
    IF s.isLocked[node] /\ s.userID[node] # id
    THEN [ok |-> FALSE, lockedNodes |-> lockedNodes]
    ELSE LET collected == IF s.isLocked[node] THEN Append(lockedNodes, node)
                          ELSE lockedNodes
         IN  IF s.descendantLocked[node] <= 1 /\ ~s.isLocked[node]
             THEN [ok |-> TRUE, lockedNodes |-> collected]
             ELSE checkChildren(s, childrenIDs[node], 1, id, collected)

checkDescendantsLocked(s, node, id, lockedNodes) ==
    IF s.isLocked[node] /\ s.userID[node] # id
    THEN [ok |-> FALSE, lockedNodes |-> lockedNodes]
    ELSE LET collected == IF s.isLocked[node] THEN Append(lockedNodes, node)
                          ELSE lockedNodes
         IN  IF s.descendantLocked[node] = 0 /\ ~s.isLocked[node]
             THEN [ok |-> TRUE, lockedNodes |-> collected]
             ELSE checkChildren(s, childrenIDs[node], 1, id, collected)

\* The loop of upgradeNode over the collected descendants: unlockNode on each,
\* return false at the first one that fails.
RECURSIVE unlockAll(_, _, _, _)
unlockAll(s, lockedDescendants, i, id) ==
    IF i > Len(lockedDescendants) THEN [ret |-> TRUE, st |-> s]
    ELSE LET r == unlockNode(s, lockedDescendants[i], id)
         IN  IF ~r.ret THEN [ret |-> FALSE, st |-> r.st]
             ELSE unlockAll(r.st, lockedDescendants, i + 1, id)

\* upgradeNode that releases only the first collected descendant.
UpgradeNodeReleasesFirstOnly(s, n, id) ==
    IF s.isLocked[n] THEN [ret |-> FALSE, st |-> s]
    ELSE IF s.ancestorLocked[n] # 0 \/ s.descendantLocked[n] = 0
    THEN [ret |-> FALSE, st |-> s]
    ELSE LET c == checkDescendantsLocked(s, n, id, <<>>)
         IN  IF ~c.ok THEN [ret |-> FALSE, st |-> s]
             ELSE LET u == unlockAll(s, SubSeq(c.lockedNodes, 1, 1), 1, id)
                  IN  IF ~u.ret THEN [ret |-> FALSE, st |-> u.st]
                      ELSE [ret |-> TRUE, st |-> lockNode(u.st, n, id).st]

\* upgradeNode without the test that some descendant is locked.
UpgradeNodeNoDescendantTest(s, n, id) ==
    IF s.isLocked[n] THEN [ret |-> FALSE, st |-> s]
    ELSE IF s.ancestorLocked[n] # 0
    THEN [ret |-> FALSE, st |-> s]
    ELSE LET c == checkDescendantsLocked(s, n, id, <<>>)
         IN  IF ~c.ok THEN [ret |-> FALSE, st |-> s]
             ELSE LET u == unlockAll(s, c.lockedNodes, 1, id)
                  IN  IF ~u.ret THEN [ret |-> FALSE, st |-> u.st]
                      ELSE [ret |-> TRUE, st |-> lockNode(u.st, n, id).st]

\* upgradeNode that releases the descendants collected so far even when the
\* walk stopped at a descendant of another user.
UpgradeNodeReleasesOnFailure(s, n, id) ==
    IF s.isLocked[n] THEN [ret |-> FALSE, st |-> s]
    ELSE IF s.ancestorLocked[n] # 0 \/ s.descendantLocked[n] = 0
    THEN [ret |-> FALSE, st |-> s]
    ELSE LET c == checkDescendantsLocked(s, n, id, <<>>)
             u == unlockAll(s, c.lockedNodes, 1, id)
         IN  IF ~c.ok THEN [ret |-> FALSE, st |-> u.st]
             ELSE IF ~u.ret THEN [ret |-> FALSE, st |-> u.st]
             ELSE [ret |-> TRUE, st |-> lockNode(u.st, n, id).st]

upgradeNode(s, n, id) ==
    IF s.isLocked[n] THEN [ret |-> FALSE, st |-> s]
    ELSE IF s.ancestorLocked[n] # 0 \/ s.descendantLocked[n] = 0
    THEN [ret |-> FALSE, st |-> s]
    ELSE LET c == checkDescendantsLocked(s, n, id, <<>>)
         IN  IF ~c.ok THEN [ret |-> FALSE, st |-> s]
             ELSE LET u == unlockAll(s, c.lockedNodes, 1, id)
                  IN  IF ~u.ret THEN [ret |-> FALSE, st |-> u.st]
                      ELSE [ret |-> TRUE, st |-> lockNode(u.st, n, id).st]

\* --------------------------------------------------- brute-force manager

BState(l, u) == [isLocked |-> l, userID |-> u]

BCur == BState(bIsLocked, bUserID)

RECURSIVE isAncestorLocked(_, _)
isAncestorLocked(b, current) ==
    IF parentID[current] = -1 THEN FALSE
    ELSE IF b.isLocked[parentID[current]] THEN TRUE
    ELSE isAncestorLocked(b, parentID[current])

RECURSIVE isDescendantLocked(_, _), anyChildLocked(_, _, _)
anyChildLocked(b, kids, i) ==
    IF i > Len(kids) THEN FALSE
    ELSE IF b.isLocked[kids[i]] THEN TRUE
    ELSE IF isDescendantLocked(b, kids[i]) THEN TRUE
    ELSE anyChildLocked(b, kids, i + 1)

\* A descendant test that looks at the children only.
IsDescendantLockedChildrenOnly(b, node) ==
    \E k \in 1..Len(childrenIDs[node]) : b.isLocked[childrenIDs[node][k]]

isDescendantLocked(b, node) == anyChildLocked(b, childrenIDs[node], 1)

RECURSIVE checkAndCollectDescendants(_, _, _, _), collectChildren(_, _, _, _, _)
collectChildren(b, kids, i, id, lockedNodes) ==
    IF i > Len(kids) THEN [ok |-> TRUE, lockedNodes |-> lockedNodes]
    ELSE LET r == checkAndCollectDescendants(b, kids[i], id, lockedNodes)
         IN  IF ~r.ok THEN r
             ELSE collectChildren(b, kids, i + 1, id, r.lockedNodes)

checkAndCollectDescendants(b, node, id, lockedNodes) ==
    IF b.isLocked[node] /\ b.userID[node] # id
    THEN [ok |-> FALSE, lockedNodes |-> lockedNodes]
    ELSE collectChildren(b, childrenIDs[node], 1, id,
                         IF b.isLocked[node] THEN Append(lockedNodes, node)
                         ELSE lockedNodes)

bruteLockNode(b, n, id) ==
    IF b.isLocked[n] THEN [ret |-> FALSE, st |-> b]
    ELSE IF isAncestorLocked(b, n) THEN [ret |-> FALSE, st |-> b]
    ELSE IF isDescendantLocked(b, n) THEN [ret |-> FALSE, st |-> b]
    ELSE [ret |-> TRUE,
          st |-> BState([b.isLocked EXCEPT ![n] = TRUE], [b.userID EXCEPT ![n] = id])]

bruteUnlockNode(b, n, id) ==
    IF ~b.isLocked[n] THEN [ret |-> FALSE, st |-> b]
    ELSE IF b.userID[n] # id THEN [ret |-> FALSE, st |-> b]
    ELSE [ret |-> TRUE,
          st |-> BState([b.isLocked EXCEPT ![n] = FALSE], [b.userID EXCEPT ![n] = 0])]

\* The loop of the brute-force upgradeNode clearing the collected nodes.
RECURSIVE bruteClear(_, _, _)
bruteClear(b, lockedDescendants, i) ==
    IF i > Len(lockedDescendants) THEN b
    ELSE bruteClear(BState([b.isLocked EXCEPT ![lockedDescendants[i]] = FALSE],
                           [b.userID EXCEPT ![lockedDescendants[i]] = 0]),
                    lockedDescendants, i + 1)

bruteUpgradeNode(b, n, id) ==
    IF b.isLocked[n] THEN [ret |-> FALSE, st |-> b]
    ELSE IF isAncestorLocked(b, n) THEN [ret |-> FALSE, st |-> b]
    ELSE LET c == checkAndCollectDescendants(b, n, id, <<>>)
         IN  IF ~c.ok THEN [ret |-> FALSE, st |-> b]
             ELSE IF c.lockedNodes = <<>> THEN [ret |-> FALSE, st |-> b]
             ELSE LET cleared == bruteClear(b, c.lockedNodes, 1)
                  IN  [ret |-> TRUE,
                       st |-> BState([cleared.isLocked EXCEPT ![n] = TRUE],
                                     [cleared.userID EXCEPT ![n] = id])]

\* ------------------------------------------- sequential query processing

\* A thread outside any call.
Idle ==
    [pc |-> "idle", op |-> "none", node |-> 0, id |-> 0, phase |-> "self",
     w |-> 0, value |-> 0, current |-> -1, todo |-> <<>>,
     lockedDescendants |-> <<>>, result |-> FALSE]

NoCall(s, b) ==
    [op |-> "none", node |-> 0, id |-> 0, ret |-> FALSE, bret |-> FALSE,
     pre |-> s, bpre |-> b]

\* The state after construction: the tree of buildTree, every node unlocked
\* with zero counters, the boundary free.
Constructed(numChildren, numNodes) ==
    /\ branchingFactor = numChildren
    /\ labelToNode = buildTree(numChildren, numNodes).labelToID
    /\ parentID = buildTree(numChildren, numNodes).parentID
    /\ childrenIDs = buildTree(numChildren, numNodes).childrenIDs
    /\ isLocked = [n \in Nodes |-> FALSE]
    /\ userID = [n \in Nodes |-> 0]
    /\ ancestorLocked = [n \in Nodes |-> 0]
    /\ descendantLocked = [n \in Nodes |-> 0]
    /\ bIsLocked = [n \in Nodes |-> FALSE]
    /\ bUserID = [n \in Nodes |-> 0]
    /\ last = NoCall(Cur, BCur)
    /\ rtValid = FALSE
    /\ rtPre = Cur
    /\ queries = <<>>
    /\ outputLog = <<>>
    /\ staleCheck = FALSE
    /\ lock_flag = 0
    /\ th = [t \in Threads |-> Idle]
    /\ lin = Cur
    /\ linRet = [t \in Threads |-> FALSE]

Init ==
    /\ \E numChildren \in 1..MaxBranch, numNodes \in 1..MaxNodes :
          Constructed(numChildren, numNodes)
    /\ variant = "mutex"

\* One query of processQueries: the call on the counter-based manager and the
\* same call on the brute-force manager.
Apply(op, n, id, r, br) ==
    /\ isLocked' = r.st.isLocked
    /\ userID' = r.st.userID
    /\ ancestorLocked' = r.st.ancestorLocked
    /\ descendantLocked' = r.st.descendantLocked
    /\ bIsLocked' = br.st.isLocked
    /\ bUserID' = br.st.userID
    /\ last' = [op |-> op, node |-> n, id |-> id, ret |-> r.ret, bret |-> br.ret,
                pre |-> Cur, bpre |-> BCur]
    /\ rtValid' = (last.op = "lock" /\ last.ret /\ last.node = n /\ last.id = id)
    /\ rtPre' = IF rtValid' THEN last.pre ELSE Cur
    /\ lin' = r.st
    /\ UNCHANGED <<treeVars, queries, outputLog, staleCheck, variant, lock_flag, th,
                   linRet>>

LockQuery ==
    \E label \in KnownLabels, id \in Users :
        Apply("lock", labelToNode[label], id, lockNode(Cur, labelToNode[label], id),
              bruteLockNode(BCur, labelToNode[label], id))

UnlockQuery ==
    \E label \in KnownLabels, id \in Users :
        Apply("unlock", labelToNode[label], id, unlockNode(Cur, labelToNode[label], id),
              bruteUnlockNode(BCur, labelToNode[label], id))

UpgradeQuery ==
    \E label \in KnownLabels, id \in Users :
        Apply("upgrade", labelToNode[label], id, upgradeNode(Cur, labelToNode[label], id),
              bruteUpgradeNode(BCur, labelToNode[label], id))

Next == LockQuery \/ UnlockQuery \/ UpgradeQuery

Spec == Init /\ [][Next]_vars

\* ------------------------------- std::mutex and spinlock managers, by step

\* The order in which updateDescendant visits the strict descendants of node.
RECURSIVE preOrder(_), preOrderChildren(_, _)
preOrderChildren(kids, i) ==
    IF i > Len(kids) THEN <<>>
    ELSE <<kids[i]>> \o preOrder(kids[i]) \o preOrderChildren(kids, i + 1)

preOrder(node) == preOrderChildren(childrenIDs[node], 1)

\* The call as the sequential manager runs it.
Sequential(s, op, n, id) ==
    CASE op = "lock" -> lockNode(s, n, id)
      [] op = "unlock" -> unlockNode(s, n, id)
      [] op = "upgrade" -> upgradeNode(s, n, id)

\* In the spinlock manager the final lock of upgradeNode sets the flag and the
\* owner before the two counter walks; everywhere else the walks come first.
FlipFirst(t) == variant = "spin" /\ th[t].phase = "acq"

\* The thread starts the counter walks and writes for node w: value 1 locks it,
\* value -1 unlocks it.
StartWalk(t, phase, w, value) ==
    [th[t] EXCEPT !.phase = phase, !.w = w, !.value = value,
                  !.current = parentID[w],
                  !.pc = IF variant = "spin" /\ phase = "acq" THEN "flip" ELSE "anc"]

\* A thread calls lockNode, unlockNode or upgradeNode and reaches the
\* acquisition of the boundary.  The arguments are the caller's own until the
\* boundary is taken; they are drawn there.
Call(t) ==
    /\ th[t].pc = "idle"
    /\ th' = [th EXCEPT ![t].pc = "lock"]
    /\ UNCHANGED <<treeVars, lockVars, bruteVars, histVars, variant, lock_flag,
                   lin, linRet>>

\* An entry whose test-and-set leaves the flag as it found it.
EnterLeavesFlag(t, op, n, id) ==
    /\ lock_flag' = lock_flag
    /\ th' = [th EXCEPT ![t] = [Idle EXCEPT !.pc = "check", !.op = op,
                                            !.node = n, !.id = id]]
    /\ lin' = Sequential(lin, op, n, id).st
    /\ linRet' = [linRet EXCEPT ![t] = Sequential(lin, op, n, id).ret]
    /\ UNCHANGED <<treeVars, lockVars, bruteVars, histVars, variant>>

\* The thread enters the body of op(n, id); the sequential run makes the same
\* call at this point.
Enter(t, op, n, id) ==
    /\ lock_flag' = 1
    /\ th' = [th EXCEPT ![t] = [Idle EXCEPT !.pc = "check", !.op = op,
                                            !.node = n, !.id = id]]
    /\ lin' = Sequential(lin, op, n, id).st
    /\ linRet' = [linRet EXCEPT ![t] = Sequential(lin, op, n, id).ret]
    /\ UNCHANGED <<treeVars, lockVars, bruteVars, histVars, variant>>

\* An acquisition that does not look at the flag.
AcquireWithoutTest(t) ==
    /\ th[t].pc = "lock"
    /\ \E op \in {"lock", "unlock", "upgrade"}, label \in KnownLabels, id \in UsersC :
          Enter(t, op, labelToNode[label], id)

\* lock_guard.lock() / std::lock_guard: test-and-set of the flag; the thread
\* goes on when the flag was 0 and tries again otherwise.
Acquire(t) ==
    /\ th[t].pc = "lock"
    /\ lock_flag = 0
    /\ \E op \in {"lock", "unlock", "upgrade"}, label \in KnownLabels, id \in UsersC :
          Enter(t, op, labelToNode[label], id)

\* Precondition tests on a read-only fast path: the boundary is given up once
\* the tests pass, before the writes.
CheckThenReleases(t) ==
    /\ th[t].pc = "check"
    /\ LET n == th[t].node
           refused ==
               CASE th[t].op = "lock" ->
                        isLocked[n] \/ ancestorLocked[n] # 0 \/ descendantLocked[n] # 0
                 [] th[t].op = "unlock" ->
                        ~isLocked[n] \/ userID[n] # th[t].id
                 [] th[t].op = "upgrade" ->
                        isLocked[n] \/ ancestorLocked[n] # 0 \/ descendantLocked[n] = 0
       IN  /\ th' = [th EXCEPT ![t] =
                    IF refused THEN [th[t] EXCEPT !.result = FALSE, !.pc = "unlock"]
                    ELSE IF th[t].op = "upgrade" THEN [th[t] EXCEPT !.pc = "collect"]
                    ELSE StartWalk(t, "self", n, IF th[t].op = "lock" THEN 1 ELSE -1)]
           /\ lock_flag' = IF refused THEN lock_flag ELSE 0
    /\ UNCHANGED <<treeVars, lockVars, bruteVars, histVars, variant, lin, linRet>>

\* The precondition tests at the head of the three operations.
Check(t) ==
    /\ th[t].pc = "check"
    /\ LET n == th[t].node
           refused ==
               CASE th[t].op = "lock" ->
                        isLocked[n] \/ ancestorLocked[n] # 0 \/ descendantLocked[n] # 0
                 [] th[t].op = "unlock" ->
                        ~isLocked[n] \/ userID[n] # th[t].id
                 [] th[t].op = "upgrade" ->
                        isLocked[n] \/ ancestorLocked[n] # 0 \/ descendantLocked[n] = 0
       IN  th' = [th EXCEPT ![t] =
                    IF refused THEN [th[t] EXCEPT !.result = FALSE, !.pc = "unlock"]
                    ELSE IF th[t].op = "upgrade" THEN [th[t] EXCEPT !.pc = "collect"]
                    ELSE StartWalk(t, "self", n, IF th[t].op = "lock" THEN 1 ELSE -1)]
    /\ UNCHANGED <<treeVars, lockVars, bruteVars, histVars, variant, lock_flag,
                   lin, linRet>>

\* upgradeNode: checkDescendantsLocked over the subtree of the target.
Collect(t) ==
    /\ th[t].pc = "collect"
    /\ LET c == checkDescendantsLocked(Cur, th[t].node, th[t].id, <<>>)
       IN  th' = [th EXCEPT ![t] =
                    IF c.ok
                    THEN [th[t] EXCEPT !.lockedDescendants = c.lockedNodes, !.pc = "loop"]
                    ELSE [th[t] EXCEPT !.result = FALSE, !.pc = "unlock"]]
    /\ UNCHANGED <<treeVars, lockVars, bruteVars, histVars, variant, lock_flag,
                   lin, linRet>>

\* The loop head of an upgradeNode that releases each descendant through the
\* public unlockNode, whose guard gives the boundary up.
LoopDropsBoundary(t) ==
    /\ th[t].pc = "loop"
    /\ th' = [th EXCEPT ![t] =
                IF th[t].lockedDescendants # <<>>
                THEN StartWalk(t, "rel", Head(th[t].lockedDescendants), -1)
                ELSE StartWalk(t, "acq", th[t].node, 1)]
    /\ lock_flag' = 0
    /\ UNCHANGED <<treeVars, lockVars, bruteVars, histVars, variant, lin, linRet>>

\* upgradeNode: the head of the loop over the collected descendants, and after
\* the loop the start of the lock of the target.
Loop(t) ==
    /\ th[t].pc = "loop"
    /\ th' = [th EXCEPT ![t] =
                IF th[t].lockedDescendants # <<>>
                THEN StartWalk(t, "rel", Head(th[t].lockedDescendants), -1)
                ELSE StartWalk(t, "acq", th[t].node, 1)]
    /\ UNCHANGED <<treeVars, lockVars, bruteVars, histVars, variant, lock_flag,
                   lin, linRet>>

\* One turn of the upward loop: descendantLocked of current, then its parent.
WalkUp(t) ==
    /\ th[t].pc = "anc"
    /\ th[t].current # -1
    /\ descendantLocked' =
          [descendantLocked EXCEPT ![th[t].current] = @ + th[t].value]
    /\ th' = [th EXCEPT ![t].current = parentID[th[t].current]]
    /\ UNCHANGED <<treeVars, isLocked, userID, ancestorLocked, bruteVars, histVars,
                   variant, lock_flag, lin, linRet>>

\* The upward loop ends above the root; updateDescendant is entered.
WalkUpDone(t) ==
    /\ th[t].pc = "anc"
    /\ th[t].current = -1
    /\ th' = [th EXCEPT ![t].pc = "desc", ![t].todo = preOrder(th[t].w)]
    /\ UNCHANGED <<treeVars, lockVars, bruteVars, histVars, variant, lock_flag,
                   lin, linRet>>

\* updateDescendant: ancestorLocked of the next descendant.
WalkDown(t) ==
    /\ th[t].pc = "desc"
    /\ th[t].todo # <<>>
    /\ ancestorLocked' =
          [ancestorLocked EXCEPT ![Head(th[t].todo)] = @ + th[t].value]
    /\ th' = [th EXCEPT ![t].todo = Tail(th[t].todo)]
    /\ UNCHANGED <<treeVars, isLocked, userID, descendantLocked, bruteVars, histVars,
                   variant, lock_flag, lin, linRet>>

\* updateDescendant has returned.
WalkDownDone(t) ==
    /\ th[t].pc = "desc"
    /\ th[t].todo = <<>>
    /\ th' = [th EXCEPT ![t].pc = IF FlipFirst(t) THEN "walked" ELSE "flip"]
    /\ UNCHANGED <<treeVars, lockVars, bruteVars, histVars, variant, lock_flag,
                   lin, linRet>>

\* The write of the locked flag of w.
Flip(t) ==
    /\ th[t].pc = "flip"
    /\ isLocked' = [isLocked EXCEPT ![th[t].w] = (th[t].value = 1)]
    /\ th' = [th EXCEPT ![t].pc = "user"]
    /\ UNCHANGED <<treeVars, userID, ancestorLocked, descendantLocked, bruteVars,
                   histVars, variant, lock_flag, lin, linRet>>

\* The write of the owner of w: the caller's id, or 0 on unlock.
SetUser(t) ==
    /\ th[t].pc = "user"
    /\ userID' = [userID EXCEPT ![th[t].w] = IF th[t].value = 1 THEN th[t].id ELSE 0]
    /\ th' = [th EXCEPT ![t].pc = IF FlipFirst(t) THEN "anc" ELSE "walked"]
    /\ UNCHANGED <<treeVars, isLocked, ancestorLocked, descendantLocked, bruteVars,
                   histVars, variant, lock_flag, lin, linRet>>

\* The walks and writes for w are done: the next collected descendant of an
\* upgrade, or the end of the operation with result true.
Walked(t) ==
    /\ th[t].pc = "walked"
    /\ th' = [th EXCEPT ![t] =
                IF th[t].phase = "rel"
                THEN [th[t] EXCEPT !.lockedDescendants = Tail(th[t].lockedDescendants),
                                   !.pc = "loop"]
                ELSE [th[t] EXCEPT !.result = TRUE, !.pc = "unlock"]]
    /\ UNCHANGED <<treeVars, lockVars, bruteVars, histVars, variant, lock_flag,
                   lin, linRet>>

\* A return that leaves the boundary held.
ReleaseKeepsBoundary(t) ==
    /\ th[t].pc = "unlock"
    /\ th' = [th EXCEPT ![t] = [Idle EXCEPT !.pc = "ret", !.op = th[t].op,
                                            !.result = th[t].result]]
    /\ UNCHANGED <<treeVars, lockVars, bruteVars, histVars, variant, lock_flag,
                   lin, linRet>>

\* lock_guard.unlock() / the destructor of std::lock_guard.
Release(t) ==
    /\ th[t].pc = "unlock"
    /\ lock_flag' = 0
    /\ th' = [th EXCEPT ![t] = [Idle EXCEPT !.pc = "ret", !.op = th[t].op,
                                            !.result = th[t].result]]
    /\ UNCHANGED <<treeVars, lockVars, bruteVars, histVars, variant, lin, linRet>>

\* The call returns its result to the caller.
Return(t) ==
    /\ th[t].pc = "ret"
    /\ th' = [th EXCEPT ![t] = Idle]
    /\ linRet' = [linRet EXCEPT ![t] = FALSE]
    /\ UNCHANGED <<treeVars, lockVars, bruteVars, histVars, variant, lock_flag, lin>>

InitMutex ==
    /\ Constructed(MaxBranchC, MaxNodesC)
    /\ variant \in {"mutex", "spin"}

NextMutex ==
    \E t \in Threads :
        \/ Call(t)
        \/ Acquire(t)
        \/ Check(t)
        \/ Collect(t)
        \/ Loop(t)
        \/ WalkUp(t)
        \/ WalkUpDone(t)
        \/ WalkDown(t)
        \/ WalkDownDone(t)
        \/ Flip(t)
        \/ SetUser(t)
        \/ Walked(t)
        \/ Release(t)
        \/ Return(t)

SpecMutex == InitMutex /\ [][NextMutex]_vars

\* ----------------------------------------------------------------- claims

LockedAncestors(s, n) == {a \in Ancestors(n) : s.isLocked[a]}
LockedDescendants(s, n) == {d \in Descendants(n) : s.isLocked[d]}

\* C1: after any sequence of calls, no node is locked together with one of its
\* strict ancestors.
MutualExclusion ==
    \A d \in Nodes : \A a \in Ancestors(d) : ~(isLocked[a] /\ isLocked[d])

\* A lockNode on a node above a held lock has just been refused.
MutualExclusionWitness ==
    /\ last.op = "lock" /\ ~last.ret
    /\ ~last.pre.isLocked[last.node]
    /\ LockedDescendants(Cur, last.node) # {}

\* C2: after every completed call, ancestorLocked[n] is the number of locked
\* strict ancestors of n and descendantLocked[n] the number of locked strict
\* descendants of n.
CounterCorrectness ==
    \A n \in Nodes :
        /\ ancestorLocked[n] = Cardinality(LockedAncestors(Cur, n))
        /\ descendantLocked[n] = Cardinality(LockedDescendants(Cur, n))

\* A successful unlockNode on an inner node has run and another lock is still
\* counted above it.
CounterCorrectnessWitness ==
    /\ last.op = "unlock" /\ last.ret
    /\ Descendants(last.node) # {}
    /\ \E a \in Ancestors(last.node) : descendantLocked[a] >= 1

\* C4: after upgradeNode(n, u) returned true, n is locked with owner u and every
\* node that was a locked strict descendant of n is unlocked with userID 0; no
\* strict descendant of n is locked.
UpgradePostcondition ==
    (last.op = "upgrade" /\ last.ret) =>
        /\ isLocked[last.node]
        /\ userID[last.node] = last.id
        /\ \A d \in LockedDescendants(last.pre, last.node) :
              ~isLocked[d] /\ userID[d] = 0
        /\ LockedDescendants(Cur, last.node) = {}

\* An upgrade that replaced at least two descendant locks.
UpgradePostconditionWitness ==
    /\ last.op = "upgrade" /\ last.ret
    /\ Cardinality(LockedDescendants(last.pre, last.node)) >= 2

\* C5: lockNode(n, u) returns true exactly when n, its strict ancestors and its
\* strict descendants are all unlocked (counter-based and brute-force manager
\* alike); after a true result n is locked with owner u and the locked flag and
\* owner of every other node are as before.
LockDecision ==
    last.op = "lock" =>
        LET n == last.node
            free == /\ ~last.pre.isLocked[n]
                    /\ LockedAncestors(last.pre, n) = {}
                    /\ LockedDescendants(last.pre, n) = {}
        IN  /\ last.ret = free
            /\ last.bret = free
            /\ last.ret =>
                  /\ isLocked[n] /\ userID[n] = last.id
                  /\ bIsLocked[n] /\ bUserID[n] = last.id
                  /\ \A m \in Nodes \ {n} :
                        /\ isLocked[m] = last.pre.isLocked[m]
                        /\ userID[m] = last.pre.userID[m]
                        /\ bIsLocked[m] = last.bpre.isLocked[m]
                        /\ bUserID[m] = last.bpre.userID[m]

\* A lockNode granted while an unrelated node holds a lock.
LockDecisionWitness ==
    /\ last.op = "lock" /\ last.ret
    /\ \E m \in Nodes \ {last.node} : isLocked[m]

\* C6: a lockNode that returned false left the locked flag, owner and both
\* counters of every node as they were.
FailedLockNoOp ==
    (last.op = "lock" /\ ~last.ret) => Cur = last.pre

\* A lockNode refused on an unlocked node because of a counter.
FailedLockNoOpWitness ==
    /\ last.op = "lock" /\ ~last.ret
    /\ ~last.pre.isLocked[last.node]
    /\ last.pre.ancestorLocked[last.node] # 0
    /\ Ancestors(parentID[last.node]) # {}

\* C7: unlockNode(n, u) on a node that is not locked, or is locked by another
\* owner, returns false and changes nothing; the same call made again returns
\* false and changes nothing.
IdempotentUnlockFailure ==
    (/\ last.op = "unlock"
     /\ (~last.pre.isLocked[last.node] \/ last.pre.userID[last.node] # last.id)) =>
        /\ ~last.ret
        /\ Cur = last.pre
        /\ unlockNode(Cur, last.node, last.id) = [ret |-> FALSE, st |-> Cur]

\* An unlockNode by a user who is not the owner of the locked node.
IdempotentUnlockFailureWitness ==
    /\ last.op = "unlock"
    /\ last.pre.isLocked[last.node]
    /\ last.pre.userID[last.node] # last.id

\* C8: unlockNode(n, u) returns true exactly when n is locked with owner u;
\* afterwards n is unlocked with userID 0, descendantLocked of every strict
\* ancestor and ancestorLocked of every strict descendant is one less.
UnlockSuccess ==
    last.op = "unlock" =>
        LET n == last.node
        IN  /\ last.ret = (last.pre.isLocked[n] /\ last.pre.userID[n] = last.id)
            /\ last.ret =>
                  /\ ~isLocked[n] /\ userID[n] = 0
                  /\ \A a \in Ancestors(n) :
                        descendantLocked[a] = last.pre.descendantLocked[a] - 1
                  /\ \A d \in Descendants(n) :
                        ancestorLocked[d] = last.pre.ancestorLocked[d] - 1

\* A successful unlockNode on a node two levels down that has descendants.
UnlockSuccessWitness ==
    /\ last.op = "unlock" /\ last.ret
    /\ Cardinality(Ancestors(last.node)) >= 2
    /\ Descendants(last.node) # {}

\* C9: an unlockNode(n, u) that immediately follows a successful lockNode(n, u)
\* returns true and restores the lock state that held before the lockNode.
RoundTrip ==
    (rtValid /\ last.op = "unlock") => (last.ret /\ Cur = rtPre)

\* A lock / unlock round trip made while another node holds a lock.
RoundTripWitness ==
    /\ rtValid /\ last.op = "unlock" /\ last.ret
    /\ Ancestors(last.node) # {}
    /\ \E m \in Nodes : isLocked[m]

\* C10: upgradeNode(n, u) returns true exactly when n is unlocked, no strict
\* ancestor of n is locked, some strict descendant of n is locked and every
\* locked strict descendant of n is owned by u (counter-based and brute-force
\* manager alike).
UpgradeDecision ==
    last.op = "upgrade" =>
        LET n == last.node
            held == LockedDescendants(last.pre, n)
            granted == /\ ~last.pre.isLocked[n]
                       /\ LockedAncestors(last.pre, n) = {}
                       /\ held # {}
                       /\ \A d \in held : last.pre.userID[d] = last.id
        IN  /\ last.ret = granted
            /\ last.bret = granted

\* An upgradeNode refused because one of two locked descendants has another owner.
UpgradeDecisionWitness ==
    /\ last.op = "upgrade" /\ ~last.ret
    /\ \E d \in LockedDescendants(last.pre, last.node) : last.pre.userID[d] = last.id
    /\ \E d \in LockedDescendants(last.pre, last.node) : last.pre.userID[d] # last.id

\* No thread is between taking the boundary and releasing it.
Quiescent == \A t \in Threads : th[t].pc \in {"idle", "lock", "ret"}

\* C3: under concurrent calls, every returned boolean is the one the call has
\* in the sequential run of the same calls in the order in which they took the
\* boundary (which keeps each thread's program order), and whenever no call is
\* in flight the locked flag, owner and counters of every node are those of
\* that sequential run.
Linearizable ==
    /\ \A t \in Threads : th[t].pc = "ret" => th[t].result = linRet[t]
    /\ Quiescent => Cur = lin

\* An upgrade that released two descendants has returned true while the other
\* thread waits for the boundary.
LinearizableWitness ==
    \E t1, t2 \in Threads :
        /\ th[t1].pc = "ret" /\ th[t1].op = "upgrade" /\ th[t1].result
        /\ th[t2].pc = "lock"
        /\ \E n \in Nodes : isLocked[n] /\ Cardinality(Descendants(n)) >= 2

\* C11: an upgradeNode that returned false left the locked flag, owner and both
\* counters of every node as they were, also when only some of the locked
\* descendants belong to the caller.
FailedUpgradeNoOp ==
    (last.op = "upgrade" /\ ~last.ret) => Cur = last.pre

\* A refused upgradeNode whose walk met a descendant of the caller before it
\* met one of another user.
FailedUpgradeNoOpWitness ==
    /\ last.op = "upgrade" /\ ~last.ret
    /\ ~checkDescendantsLocked(last.pre, last.node, last.id, <<>>).ok
    /\ checkDescendantsLocked(last.pre, last.node, last.id, <<>>).lockedNodes # <<>>

\* The thread is between taking the boundary and releasing it.
InBody(t) ==
    th[t].pc \in {"check", "collect", "loop", "anc", "desc", "flip", "user",
                  "walked", "unlock"}

\* The thread is inside upgradeNode, past checkDescendantsLocked and before the
\* end of the final lock of the target.
InUpgradeWindow(t) ==
    /\ th[t].op = "upgrade"
    /\ th[t].pc \in {"loop", "anc", "desc", "flip", "user", "walked"}

\* C12: while a thread is between the first descendant unlock and the final
\* lock of an upgradeNode, the boundary is held and no other thread is inside
\* the body of lockNode, unlockNode or upgradeNode, so none reads or writes the
\* lock state and no lockNode can be granted in between.
UpgradeIndivisible ==
    \A t1 \in Threads :
        InUpgradeWindow(t1) =>
            /\ lock_flag = 1
            /\ \A t2 \in Threads \ {t1} : ~InBody(t2)

\* An upgrade is releasing a descendant two levels below its target, the
\* counters of the node in between already lowered, while another thread
\* waits for the boundary.
UpgradeIndivisibleWitness ==
    \E t1, t2 \in Threads :
        /\ InUpgradeWindow(t1) /\ th[t1].phase = "rel" /\ th[t1].pc = "flip"
        /\ parentID[th[t1].w] # th[t1].node
        /\ th[t2].pc = "lock"

\* C17: node 0 is the root and has no parent, every other node i is a child of
\* node (i - 1) \div m for the branching factor m, each child list holds
\* exactly the node's children in increasing input order, and every label is
\* in the label index, mapped to its own node.
TreeConstruction ==
    /\ parentID[0] = -1
    /\ \A i \in Nodes \ {0} : parentID[i] = (i - 1) \div branchingFactor
    /\ \A p \in Nodes :
          /\ {childrenIDs[p][k] : k \in 1..Len(childrenIDs[p])} =
                {i \in Nodes : parentID[i] = p}
          /\ \A k \in 1..(Len(childrenIDs[p]) - 1) :
                childrenIDs[p][k] < childrenIDs[p][k + 1]
    /\ DOMAIN labelToNode = Nodes
    /\ \A l \in Nodes : labelToNode[l] = l

\* A tree of three levels whose last inner node has fewer children than the
\* branching factor, after queries have run on it.
TreeConstructionWitness ==
    /\ branchingFactor = 2
    /\ Cardinality(Nodes) = 4
    /\ Len(childrenIDs[1]) = 1
    /\ last.op # "none"

\* C16: between operations, a node's owner field is 0 (none) exactly when the
\* node is not locked, and the owner of a node locked by the last lock or
\* upgrade call is the user id passed to that call.
OwnerConsistency ==
    /\ \A n \in Nodes : (userID[n] = 0) <=> ~isLocked[n]
    /\ (last.op \in {"lock", "upgrade"} /\ last.ret) => userID[last.node] = last.id

\* ------------------------------------------------- construction input
\* main reads numNodes and numChildren as plain ints and hands them to
\* buildTree unchecked, so a branching factor of 0 is an input like any other:
\* the BFS loop then attaches no child and indexes only the root's label.
InitInput ==
    \E numChildren \in 0..MaxBranch, numNodes \in 1..MaxNodes :
        /\ Constructed(numChildren, numNodes)
        /\ variant = "mutex"

SpecInput == InitInput /\ [][Next]_vars

\* C18: construction with a branching factor below 1 is rejected, so no lock
\* operation is ever executed on a tree built from such input.
InvalidInputRejected == branchingFactor < 1 => last.op = "none"

\* ------------------------------------------------------- unknown labels
\* A query may name a label that is not among the N labels of the input.
\* One such label is enough: the first index after the node labels.  A thread
\* record with node = -1 is a call whose label did not resolve to a node.
UnknownLabel == Cardinality(Nodes)

\* The call takes the boundary like any other.
AcquireUnknown(t) ==
    /\ th[t].pc = "lock"
    /\ lock_flag = 0
    /\ UnknownLabel \notin KnownLabels
    /\ \E op \in {"lock", "unlock", "upgrade"} :
          th' = [th EXCEPT ![t] = [Idle EXCEPT !.pc = "lookup", !.op = op,
                                               !.node = -1]]
    /\ lock_flag' = 1
    /\ UNCHANGED <<treeVars, lockVars, bruteVars, histVars, variant, lin, linRet>>

\* Spinlock manager: getIndex finds no entry and returns -1; the operation
\* goes to `lock_guard.unlock(); return false;`.
GetIndexMiss(t) ==
    /\ th[t].pc = "lookup"
    /\ variant = "spin"
    /\ th' = [th EXCEPT ![t].pc = "notfound", ![t].result = FALSE]
    /\ UNCHANGED <<treeVars, lockVars, bruteVars, histVars, variant, lock_flag,
                   lin, linRet>>

\* std::mutex manager: `labelToNode[label]` on an unordered_map inserts the
\* label with a null pointer (-1) when it is absent and returns that pointer.
InsertNull(t) ==
    /\ th[t].pc = "lookup"
    /\ variant = "mutex"
    /\ labelToNode' = IF UnknownLabel \in DOMAIN labelToNode
                        THEN labelToNode
                        ELSE labelToNode @@ (UnknownLabel :> -1)
    /\ th' = [th EXCEPT ![t].pc = "deref"]
    /\ UNCHANGED <<branchingFactor, parentID, childrenIDs, lockVars, bruteVars,
                   histVars, variant, lock_flag, lin, linRet>>

\* `targetNode->isLocked` through the null pointer is undefined behaviour.
\* One outcome: the access faults and the process is killed, every thread
\* with it; the mutex is never released.
NullFault(t) ==
    /\ th[t].pc = "deref"
    /\ th' = [u \in Threads |-> [th[u] EXCEPT !.pc = "fault"]]
    /\ UNCHANGED <<treeVars, lockVars, bruteVars, histVars, variant, lock_flag,
                   lin, linRet>>

\* The other outcome: the accesses yield arbitrary values, no node of the tree
\* is touched and the call returns either boolean; the lock_guard releases
\* the mutex on the way out.
NullGarbage(t) ==
    /\ th[t].pc = "deref"
    /\ \E r \in BOOLEAN :
          th' = [th EXCEPT ![t].pc = "notfound", ![t].result = r]
    /\ UNCHANGED <<treeVars, lockVars, bruteVars, histVars, variant, lock_flag,
                   lin, linRet>>

\* The boundary is released and the call is about to return its result.
ReleaseUnknown(t) ==
    /\ th[t].pc = "notfound"
    /\ lock_flag' = 0
    /\ th' = [th EXCEPT ![t] = [Idle EXCEPT !.pc = "ret", !.op = th[t].op,
                                            !.node = -1,
                                            !.result = th[t].result]]
    /\ UNCHANGED <<treeVars, lockVars, bruteVars, histVars, variant, lin, linRet>>

LabelStep ==
    \E t \in Threads :
        \/ AcquireUnknown(t)
        \/ GetIndexMiss(t)
        \/ InsertNull(t)
        \/ NullFault(t)
        \/ NullGarbage(t)
        \/ ReleaseUnknown(t)

NextLabel == NextMutex \/ LabelStep

SpecLabel == InitMutex /\ [][NextLabel]_vars

\* C19: a call whose label is not in the label index ends, without a fault,
\* in a NotFound outcome that is neither of the booleans true and false.
NotFoundOutcome ==
    \A t \in Threads :
        th[t].node = -1 =>
            /\ th[t].pc # "fault"
            /\ th[t].pc = "ret" => th[t].result \notin BOOLEAN

\* A thread is inside an operation, holding the boundary and able to go on.
Inside(t) == InBody(t) \/ th[t].pc \in {"lookup", "deref", "notfound"}

\* A thread that can take no step: stopped by a fault, or waiting for a
\* boundary that is held.
Blocked(t) == th[t].pc = "fault" \/ (th[t].pc = "lock" /\ lock_flag = 1)

\* C13: the boundary is held only while some thread is inside an operation
\* and on its way to release it, and the threads are never all blocked; every
\* path of an operation, the unknown-label path included, releases the
\* boundary before it returns.
BoundaryReleased ==
    /\ lock_flag = 1 => \E t \in Threads : Inside(t)
    /\ \E t \in Threads : ~Blocked(t)

\* ------------------------------------------------------- processQueries
\* The switch on the opcode: 1 = lockNode, 2 = unlockNode, 3 = upgradeNode.
runQuery(s, opcode, n, id) ==
    CASE opcode = 1 -> lockNode(s, n, id)
      [] opcode = 2 -> unlockNode(s, n, id)
      [] opcode = 3 -> upgradeNode(s, n, id)

\* A loop body that puts the result at the front of the log.
ProcessQueryLogsAtFront ==
    /\ Len(queries) < MaxQueries
    /\ \E opcode \in 1..3, label \in KnownLabels, id \in UsersC :
          LET r == runQuery(Cur, opcode, labelToNode[label], id)
          IN  /\ isLocked' = r.st.isLocked
              /\ userID' = r.st.userID
              /\ ancestorLocked' = r.st.ancestorLocked
              /\ descendantLocked' = r.st.descendantLocked
              /\ outputLog' = <<IF r.ret THEN "true" ELSE "false">> \o outputLog
              /\ queries' = Append(queries, <<opcode, label, id>>)
    /\ UNCHANGED <<treeVars, bruteVars, last, rtValid, rtPre, staleCheck, thrVars>>

\* One turn of the loop of processQueries: the next query of the input is
\* executed on the current lock state and its result pushed onto outputLog.
ProcessQuery ==
    /\ Len(queries) < MaxQueries
    /\ \E opcode \in 1..3, label \in KnownLabels, id \in UsersC :
          LET r == runQuery(Cur, opcode, labelToNode[label], id)
          IN  /\ isLocked' = r.st.isLocked
              /\ userID' = r.st.userID
              /\ ancestorLocked' = r.st.ancestorLocked
              /\ descendantLocked' = r.st.descendantLocked
              /\ outputLog' = Append(outputLog, IF r.ret THEN "true" ELSE "false")
              /\ queries' = Append(queries, <<opcode, label, id>>)
    /\ UNCHANGED <<treeVars, bruteVars, last, rtValid, rtPre, staleCheck, thrVars>>

InitQueries ==
    /\ Constructed(MaxBranchC, MaxNodesC)
    /\ variant = "mutex"

NextQueries == ProcessQuery

SpecQueries == InitQueries /\ [][NextQueries]_vars

\* The lock state after construction, and the result of the k-th query when
\* the first k queries are executed one after the other from that state.
Unlocked ==
    State([n \in Nodes |-> FALSE], [n \in Nodes |-> 0],
          [n \in Nodes |-> 0], [n \in Nodes |-> 0])

RECURSIVE Replay(_)
Replay(k) ==
    IF k = 0 THEN [ret |-> FALSE, st |-> Unlocked]
    ELSE runQuery(Replay(k - 1).st, queries[k][1], labelToNode[queries[k][2]],
                  queries[k][3])

\* C20: after k queries the output log holds exactly k results, and the i-th
\* is "true" or "false" according to the boolean returned by the i-th query's
\* operation on the state left by the queries before it.
OutputOrder ==
    /\ Len(outputLog) = Len(queries)
    /\ \A i \in 1..Len(queries) :
          outputLog[i] = IF Replay(i).ret THEN "true" ELSE "false"

\* A lock refused because of the lock before it: the two results differ and
\* the second depends on the state the first left.
OutputOrderWitness ==
    /\ Len(queries) = 2
    /\ queries[1][1] = 1 /\ queries[2][1] = 1
    /\ queries[1][2] # queries[2][2]
    /\ outputLog = <<"true", "false">>

\* ------------------------------------------ lock-free manager, by step
\* LockingTreeLockFree::lockNode: every field is a std::atomic and every step
\* below is one atomic access; nothing is held across steps.

logVars == <<last, rtValid, rtPre, queries, outputLog>>

\* The call is between its first load and its last counter update.
InFlight(t) ==
    th[t].pc \in {"lf_anc", "lf_desc", "lf_cas", "lf_user", "lf_up", "lf_down"}

\* One load of the precondition check: the call returns false when the value
\* read refuses it and goes on to `next` otherwise.  staleCheck notes a load
\* made while another call is in flight.
Load(t, refused, next) ==
    /\ th' = IF refused
               THEN [th EXCEPT ![t].pc = "ret", ![t].result = FALSE]
               ELSE [th EXCEPT ![t].pc = next]
    /\ staleCheck' = (staleCheck \/ \E u \in Threads \ {t} : InFlight(u))
    /\ UNCHANGED <<treeVars, lockVars, bruteVars, logVars, variant, lock_flag,
                   lin, linRet>>

\* lockNode(label, id) is called.
LfCall(t) ==
    /\ th[t].pc = "idle"
    /\ \E label \in KnownLabels, id \in UsersC :
          th' = [th EXCEPT ![t] = [Idle EXCEPT !.pc = "lf_locked", !.op = "lock",
                                               !.node = labelToNode[label],
                                               !.id = id]]
    /\ UNCHANGED <<treeVars, lockVars, bruteVars, histVars, variant, lock_flag,
                   lin, linRet>>

\* targetNode->isLocked.load()
LfLoadIsLocked(t) ==
    /\ th[t].pc = "lf_locked"
    /\ Load(t, isLocked[th[t].node], "lf_anc")

\* A check that does not read ancestorLocked.
LfLoadAncestorLockedSkipped(t) ==
    /\ th[t].pc = "lf_anc"
    /\ Load(t, FALSE, "lf_desc")

\* targetNode->ancestorLocked.load() != 0
LfLoadAncestorLocked(t) ==
    /\ th[t].pc = "lf_anc"
    /\ Load(t, ancestorLocked[th[t].node] # 0, "lf_desc")

\* targetNode->descendantLocked.load() != 0
LfLoadDescendantLocked(t) ==
    /\ th[t].pc = "lf_desc"
    /\ Load(t, descendantLocked[th[t].node] # 0, "lf_cas")

\* A plain store in place of the compare-and-swap: the call goes on whatever
\* the flag held.
LfStoreInsteadOfCas(t) ==
    /\ th[t].pc = "lf_cas"
    /\ isLocked' = [isLocked EXCEPT ![th[t].node] = TRUE]
    /\ th' = [th EXCEPT ![t].pc = "lf_user"]
    /\ UNCHANGED <<treeVars, userID, ancestorLocked, descendantLocked, bruteVars,
                   histVars, variant, lock_flag, lin, linRet>>

\* isLocked.compare_exchange_strong(false, true): the flag is set when it is
\* false, and the call returns false when it is true.
LfCompareExchange(t) ==
    /\ th[t].pc = "lf_cas"
    /\ isLocked' = [isLocked EXCEPT ![th[t].node] = TRUE]
    /\ th' = IF isLocked[th[t].node]
               THEN [th EXCEPT ![t].pc = "ret", ![t].result = FALSE]
               ELSE [th EXCEPT ![t].pc = "lf_user"]
    /\ UNCHANGED <<treeVars, userID, ancestorLocked, descendantLocked, bruteVars,
                   histVars, variant, lock_flag, lin, linRet>>

\* targetNode->userID.store(id); currentNode = targetNode->parent
LfStoreUser(t) ==
    /\ th[t].pc = "lf_user"
    /\ userID' = [userID EXCEPT ![th[t].node] = th[t].id]
    /\ th' = [th EXCEPT ![t].pc = "lf_up", ![t].current = parentID[th[t].node]]
    /\ UNCHANGED <<treeVars, isLocked, ancestorLocked, descendantLocked, bruteVars,
                   histVars, variant, lock_flag, lin, linRet>>

\* An upward walk that stops after the parent.
LfWalkUpParentOnly(t) ==
    /\ th[t].pc = "lf_up"
    /\ th[t].current # -1
    /\ descendantLocked' =
          [descendantLocked EXCEPT ![th[t].current] = @ + 1]
    /\ th' = [th EXCEPT ![t].current = -1]
    /\ UNCHANGED <<treeVars, isLocked, userID, ancestorLocked, bruteVars, histVars,
                   variant, lock_flag, lin, linRet>>

\* currentNode->descendantLocked++; currentNode = currentNode->parent
LfWalkUp(t) ==
    /\ th[t].pc = "lf_up"
    /\ th[t].current # -1
    /\ descendantLocked' =
          [descendantLocked EXCEPT ![th[t].current] = @ + 1]
    /\ th' = [th EXCEPT ![t].current = parentID[th[t].current]]
    /\ UNCHANGED <<treeVars, isLocked, userID, ancestorLocked, bruteVars, histVars,
                   variant, lock_flag, lin, linRet>>

\* The while loop ends at the root's parent; updateDescendant(targetNode, 1)
\* starts.
LfWalkUpDone(t) ==
    /\ th[t].pc = "lf_up"
    /\ th[t].current = -1
    /\ th' = [th EXCEPT ![t].pc = "lf_down", ![t].todo = preOrder(th[t].node)]
    /\ UNCHANGED <<treeVars, lockVars, bruteVars, histVars, variant, lock_flag,
                   lin, linRet>>

\* child->ancestorLocked += value, for the next descendant in visiting order.
LfWalkDown(t) ==
    /\ th[t].pc = "lf_down"
    /\ th[t].todo # <<>>
    /\ ancestorLocked' = [ancestorLocked EXCEPT ![Head(th[t].todo)] = @ + 1]
    /\ th' = [th EXCEPT ![t].todo = Tail(th[t].todo)]
    /\ UNCHANGED <<treeVars, isLocked, userID, descendantLocked, bruteVars,
                   histVars, variant, lock_flag, lin, linRet>>

\* return true
LfWalkDownDone(t) ==
    /\ th[t].pc = "lf_down"
    /\ th[t].todo = <<>>
    /\ th' = [th EXCEPT ![t].pc = "ret", ![t].result = TRUE]
    /\ UNCHANGED <<treeVars, lockVars, bruteVars, histVars, variant, lock_flag,
                   lin, linRet>>

\* The caller has the result and may call again.
LfReturn(t) ==
    /\ th[t].pc = "ret"
    /\ th' = [th EXCEPT ![t] = Idle]
    /\ UNCHANGED <<treeVars, lockVars, bruteVars, histVars, variant, lock_flag,
                   lin, linRet>>

InitLockFree ==
    /\ Constructed(MaxBranchC, MaxNodesC)
    /\ variant = "lockfree"

NextLockFree ==
    \E t \in Threads :
        \/ LfCall(t)
        \/ LfLoadIsLocked(t)
        \/ LfLoadAncestorLocked(t)
        \/ LfLoadDescendantLocked(t)
        \/ LfCompareExchange(t)
        \/ LfStoreUser(t)
        \/ LfWalkUp(t)
        \/ LfWalkUpDone(t)
        \/ LfWalkDown(t)
        \/ LfWalkDownDone(t)
        \/ LfReturn(t)

SpecLockFree == InitLockFree /\ [][NextLockFree]_vars

\* C14: in the lock-free manager a node and a strict ancestor of it can both
\* end up locked, and this happens only through a precondition check that
\* read its values while another lockNode call was in flight: calls that run
\* one after the other never produce it.
StaleCheckOnly == ~MutualExclusion => staleCheck

\* Two lockNode calls, one on a node and one on a strict ancestor of it, have
\* both returned true.
StaleCheckOnlyWitness ==
    \E t1, t2 \in Threads :
        /\ th[t1].pc = "ret" /\ th[t1].result
        /\ th[t2].pc = "ret" /\ th[t2].result
        /\ th[t1].node \in Ancestors(th[t2].node)
        /\ isLocked[th[t1].node] /\ isLocked[th[t2].node]

\* ------------------------------------------------------------ progress
\* The steps of a call of thread t once it has been invoked.  A scheduler
\* that is fair to threads lets a thread that can go on do so eventually; it
\* says nothing of which waiting thread gets a boundary that comes free:
\* std::mutex makes no such promise and the spinlock's test-and-set has none.
Step(t) ==
    \/ Acquire(t)
    \/ Check(t)
    \/ Collect(t)
    \/ Loop(t)
    \/ WalkUp(t)
    \/ WalkUpDone(t)
    \/ WalkDown(t)
    \/ WalkDownDone(t)
    \/ Flip(t)
    \/ SetUser(t)
    \/ Walked(t)
    \/ Release(t)
    \/ Return(t)

FairSpecMutex ==
    InitMutex /\ [][NextMutex]_vars /\ \A t \in Threads : WF_vars(Step(t))

\* C15 as stated: under fair scheduling of threads every invoked call
\* eventually returns.
EveryCallReturns ==
    \A t \in Threads : (th[t].pc = "lock") ~> (th[t].pc = "ret")

\* C15, amended: under fair scheduling of threads every call that has taken
\* the boundary eventually returns, and whenever some call waits for the
\* boundary some call eventually takes it; a given waiting call may be
\* overtaken forever.
HolderReturns ==
    /\ \A t \in Threads : InBody(t) ~> (th[t].pc = "ret")
    /\ (\E t \in Threads : th[t].pc = "lock") ~> (\E t \in Threads : InBody(t))

\* A call waits for the boundary while the holder is about to release it.
HolderReturnsWitness ==
    \E t1, t2 \in Threads :
        /\ th[t1].pc = "lock"
        /\ th[t2].pc = "unlock"
        /\ lock_flag = 1

\* C21: every step of the body of lockNode, unlockNode and upgradeNode, the
\* precondition reads that end in a refusal included, is taken by a thread
\* that holds the boundary while no other thread is inside a body; the lock
\* fields change by such steps only; and the hold lasts without a break from
\* the acquisition to the release that ends the call.
NoCheckOutsideBoundary ==
    [][/\ \A t \in Threads :
             /\ (th'[t] # th[t] /\ InBody(t)) =>
                    (lock_flag = 1 /\ \A u \in Threads \ {t} : ~InBody(u))
             /\ (InBody(t) /\ ~(th[t].pc = "unlock" /\ th'[t].pc = "ret")) =>
                    (lock_flag' = 1 /\ th'[t].op = th[t].op /\ th'[t].node = th[t].node)
       /\ lockVars' # lockVars =>
             \E t \in Threads : InBody(t) /\ th'[t] # th[t]
      ]_vars

\* A lockNode is at its precondition reads on a node that is locked, so that
\* it will return false, while another call waits for the boundary.
NoCheckOutsideBoundaryWitness ==
    \E t1, t2 \in Threads :
        /\ th[t1].pc = "check" /\ th[t1].op = "lock"
        /\ isLocked[th[t1].node]
        /\ th[t2].pc = "lock"
        /\ lock_flag = 1

\* C22: run on the same queries, the brute-force manager and the counter-based
\* manager return the same boolean for every query and agree on the locked
\* flag and the owner of every node after every query.
BruteEquivalence ==
    /\ last.ret = last.bret
    /\ \A n \in Nodes : isLocked[n] = bIsLocked[n] /\ userID[n] = bUserID[n]

\* Both managers have just granted an upgrade that released locks two levels
\* below the target.
BruteEquivalenceWitness ==
    /\ last.op = "upgrade" /\ last.ret /\ last.bret
    /\ \E d \in Descendants(last.node) :
          last.pre.isLocked[d] /\ parentID[d] # last.node

\* C23: in every reachable state and for every node n and user u for which
\* upgradeNode(n, u) passes its preconditions, checkDescendantsLocked returns
\* true exactly when every locked strict descendant of n is owned by u, and
\* the list it then returns holds every locked strict descendant of n once
\* and nothing else.
PrunedCollectionComplete ==
    \A n \in Nodes, u \in Users :
        (~isLocked[n] /\ ancestorLocked[n] = 0 /\ descendantLocked[n] # 0) =>
            LET c == checkDescendantsLocked(Cur, n, u, <<>>)
                locked == LockedDescendants(Cur, n)
            IN  /\ c.ok <=> \A d \in locked : userID[d] = u
                /\ c.ok =>
                      /\ {c.lockedNodes[k] : k \in 1..Len(c.lockedNodes)} = locked
                      /\ Len(c.lockedNodes) = Cardinality(locked)

\* The traversal from the root collects a lock and prunes an unlocked child
\* that has children of its own and no lock below it.
PrunedCollectionCompleteWitness ==
    \E u \in Users :
        /\ ~isLocked[0] /\ descendantLocked[0] # 0
        /\ checkDescendantsLocked(Cur, 0, u, <<>>).ok
        /\ checkDescendantsLocked(Cur, 0, u, <<>>).lockedNodes # <<>>
        /\ \E c \in Nodes : parentID[c] = 0 /\ ~isLocked[c] /\ descendantLocked[c] = 0
                            /\ childrenIDs[c] # <<>>

\* C24: in no reachable state does an upgradeNode(n, u) pass its precondition
\* tests, descendantLocked[n] # 0 among them, and then come back from
\* checkDescendantsLocked with success and an empty list.
EmptyCollectionUnreachable ==
    \A n \in Nodes, u \in Users :
        (~isLocked[n] /\ ancestorLocked[n] = 0 /\ descendantLocked[n] # 0) =>
            LET c == checkDescendantsLocked(Cur, n, u, <<>>)
            IN  ~(c.ok /\ c.lockedNodes = <<>>)

\* An upgradeNode has passed the precondition tests and collected the one lock
\* below its target, next to an unlocked inner node with no lock below it.
EmptyCollectionUnreachableWitness ==
    /\ last.op = "upgrade" /\ last.ret
    /\ Len(checkDescendantsLocked(last.pre, last.node, last.id, <<>>).lockedNodes) = 1
    /\ \E d \in Descendants(last.node) :
          ~last.pre.isLocked[d] /\ last.pre.descendantLocked[d] = 0
             /\ last.pre.ancestorLocked[d] = 0 /\ childrenIDs[d] # <<>>

\* C25: in every reachable state and for every upgradeNode(n, u) that passes
\* its precondition tests and whose checkDescendantsLocked returns true, every
\* internal unlockNode on a collected descendant returns true, afterwards n
\* is unlocked with descendantLocked[n] = 0 and ancestorLocked[n] = 0, and the
\* final internal lockNode(n, u) returns true.
UpgradeStepsSucceed ==
    \A n \in Nodes, u \in Users :
        (~isLocked[n] /\ ancestorLocked[n] = 0 /\ descendantLocked[n] # 0
           /\ checkDescendantsLocked(Cur, n, u, <<>>).ok) =>
            LET c == checkDescendantsLocked(Cur, n, u, <<>>)
                r == unlockAll(Cur, c.lockedNodes, 1, u)
            IN  /\ r.ret
                /\ \A k \in 1..Len(c.lockedNodes) :
                      unlockNode(unlockAll(Cur, SubSeq(c.lockedNodes, 1, k - 1), 1, u).st,
                                 c.lockedNodes[k], u).ret
                /\ r.st.descendantLocked[n] = 0
                /\ r.st.ancestorLocked[n] = 0
                /\ ~r.st.isLocked[n]
                /\ lockNode(r.st, n, u).ret

\* An upgradeNode has run its internal steps on two collected descendants
\* while another user holds a lock elsewhere in the tree.
UpgradeStepsSucceedWitness ==
    /\ last.op = "upgrade" /\ last.ret
    /\ Len(checkDescendantsLocked(last.pre, last.node, last.id, <<>>).lockedNodes) = 2
    /\ \E m \in Nodes : last.pre.isLocked[m] /\ last.pre.userID[m] # last.id

\* C26: a successful lockNode(n, u) or unlockNode(n, u) leaves unchanged
\* every field of every node that is neither n, an ancestor of n nor a
\* descendant of n, the locked flag, owner and ancestorLocked of the
\* ancestors of n, the locked flag, owner and descendantLocked of the
\* descendants of n, and both counters of n.
FrameLockUnlock ==
    (last.op \in {"lock", "unlock"} /\ last.ret) =>
        LET n == last.node
            p == last.pre
            SameFlag(x) == isLocked[x] = p.isLocked[x] /\ userID[x] = p.userID[x]
            SameUp(x) == ancestorLocked[x] = p.ancestorLocked[x]
            SameDown(x) == descendantLocked[x] = p.descendantLocked[x]
        IN  /\ SameUp(n) /\ SameDown(n)
            /\ \A a \in Ancestors(n) : SameFlag(a) /\ SameUp(a)
            /\ \A d \in Descendants(n) : SameFlag(d) /\ SameDown(d)
            /\ \A x \in Nodes \ ({n} \cup Ancestors(n) \cup Descendants(n)) :
                  SameFlag(x) /\ SameUp(x) /\ SameDown(x)

\* A successful unlockNode on a node with an ancestor and a descendant, while
\* a node outside its branch is locked.
FrameLockUnlockWitness ==
    /\ last.op = "unlock" /\ last.ret
    /\ Ancestors(last.node) # {} /\ Descendants(last.node) # {}
    /\ \E x \in Nodes \ ({last.node} \cup Ancestors(last.node)
                             \cup Descendants(last.node)) : isLocked[x]

\* C27: whatever calls are made, on known or unknown labels, every node's
\* parent and child list and the set of entries of the label index stay as
\* construction left them.
StructureReadOnly ==
    /\ parentID = buildTree(branchingFactor, Cardinality(Nodes)).parentID
    /\ childrenIDs = buildTree(branchingFactor, Cardinality(Nodes)).childrenIDs
    /\ DOMAIN labelToNode = DOMAIN buildTree(branchingFactor, Cardinality(Nodes)).labelToID

\* C28: a node n locked with owner u stays locked with owner u through every
\* call except a successful unlockNode(n, u) and a successful upgradeNode(a, u)
\* on a strict ancestor a of n: no call made with another user id and no other
\* call of u changes the locked flag or the owner of n.
OnlyOwnerReleases ==
    \A n \in Nodes :
        (last.pre.isLocked[n]
           /\ ~(isLocked[n] /\ userID[n] = last.pre.userID[n])) =>
            /\ last.ret
            /\ last.id = last.pre.userID[n]
            /\ \/ last.op = "unlock" /\ last.node = n
               \/ last.op = "upgrade" /\ last.node \in Ancestors(n)

\* A user other than the owner has tried to unlock a node below the root: the
\* lock is still there, with its owner.
OnlyOwnerReleasesWitness ==
    /\ last.op = "unlock" /\ ~last.ret
    /\ last.pre.isLocked[last.node] /\ last.pre.userID[last.node] # last.id
    /\ isLocked[last.node] /\ userID[last.node] = last.pre.userID[last.node]
    /\ Ancestors(last.node) # {}

\* Neither node is the other and neither is an ancestor of the other.
Unrelated(x, y) == x # y /\ x \notin Ancestors(y) /\ y \notin Ancestors(x)

\* C29: from every reachable state, for unrelated nodes x and y, lockNode(x, u)
\* and lockNode(y, v) run in either order return the same two results and
\* reach the same state, and the result of lockNode, unlockNode or
\* upgradeNode on x is the same with and without a lock taken on y.
Independence ==
    \A x \in Nodes, y \in Nodes :
        Unrelated(x, y) =>
            \A u \in Users, v \in Users :
                LET a == lockNode(Cur, x, u)
                    b == lockNode(Cur, y, v)
                    ab == lockNode(a.st, y, v)
                    ba == lockNode(b.st, x, u)
                IN  /\ a.ret = ba.ret
                    /\ b.ret = ab.ret
                    /\ ab.st = ba.st
                    /\ unlockNode(Cur, x, u).ret = unlockNode(b.st, x, u).ret
                    /\ upgradeNode(Cur, x, u).ret = upgradeNode(b.st, x, u).ret

\* A lockNode has been granted while an unrelated node was locked by
\* another user, and a third node unrelated to both is still free to lock.
IndependenceWitness ==
    /\ last.op = "lock" /\ last.ret
    /\ \E y \in Nodes :
          /\ Unrelated(last.node, y)
          /\ last.pre.isLocked[y] /\ last.pre.userID[y] # last.id
    /\ \E z \in Nodes :
          Unrelated(last.node, z) /\ lockNode(Cur, z, last.id).ret

\* C30: with the spinlock, at most one thread is between a returned lock() and
\* its unlock() at any time, and lock_flag is 1 exactly while some thread is.
SpinlockExclusion ==
    variant = "spin" =>
        /\ Cardinality({t \in Threads : InBody(t)}) <= 1
        /\ lock_flag = 1 <=> \E t \in Threads : InBody(t)

\* One thread is in the middle of its counter walk under the spinlock while
\* another spins in lock().
SpinlockExclusionWitness ==
    /\ variant = "spin"
    /\ \E t1, t2 \in Threads :
          /\ th[t1].pc = "desc"
          /\ th[t2].pc = "lock"

\* The lock-free lockNode of thread t has won the compare-and-swap: it is at
\* its updates or has returned true.
Won(t) ==
    \/ th[t].pc \in {"lf_user", "lf_up", "lf_down"}
    \/ th[t].pc = "ret" /\ th[t].result

\* C31: of the lock-free lockNode calls in progress on the same node at most
\* one has won the compare-and-swap or returned true; a call wins only in a
\* step that finds the node's flag false and sets it, and the flag of a node
\* is never cleared, so that no later call on the node wins either.
SameNodeOneWinner ==
    /\ [](\A t1 \in Threads : \A t2 \in Threads \ {t1} :
             th[t1].node = th[t2].node => ~(Won(t1) /\ Won(t2)))
    /\ [][/\ \A t \in Threads :
                (~Won(t) /\ Won(t)') =>
                    (~isLocked[th[t].node] /\ isLocked'[th[t].node])
          /\ \A n \in Nodes : isLocked[n] => isLocked'[n]
         ]_vars

\* Two calls on the same node have both passed the three loads; one has won
\* the compare-and-swap and the other is about to try it.
SameNodeOneWinnerWitness ==
    \E t1, t2 \in Threads :
        /\ th[t1].node = th[t2].node
        /\ th[t1].pc = "lf_user"
        /\ th[t2].pc = "lf_cas"

\* Every lock-free lockNode call that was issued has returned.
AllReturned == \A t \in Threads : th[t].pc \in {"idle", "ret"}

\* C32: in the lock-free manager, once every issued lockNode call has
\* returned, ancestorLocked of every node is the number of its locked strict
\* ancestors and descendantLocked the number of its locked strict
\* descendants, whatever the interleaving was.
QuiescentCounters ==
    AllReturned =>
        \A n \in Nodes :
            /\ ancestorLocked[n] = Cardinality(LockedAncestors(Cur, n))
            /\ descendantLocked[n] = Cardinality(LockedDescendants(Cur, n))

\* Every call has returned, three nodes are locked, and a node is locked
\* together with one of its strict ancestors.
QuiescentCountersWitness ==
    /\ AllReturned
    /\ ~MutualExclusion
    /\ Cardinality({n \in Nodes : isLocked[n]}) >= 3

====
